---- MODULE Spec2Model ----
(***************************************************************************)
(* The products service: app/models/products.py (Product and its           *)
(* prepare_values / create / update / delete / retrieve / serialized) and  *)
(* app/endpoints/products.py (the five handlers of /products).             *)
(*                                                                         *)
(* The store is the committed content of the tables `products` and         *)
(* `products_categories`; `brands` and `categories` have no endpoint and   *)
(* keep their seeded rows.  A handler is one atomic step: it reads the     *)
(* payload, runs Product.<operation>, commits or fails, and answers.  An   *)
(* exception raised before db.session.commit() leaves the tables as they   *)
(* were: the assignments already made live only in the objects of the      *)
(* request's session, which Flask-SQLAlchemy removes when the request      *)
(* ends.  A failed commit rolls the transaction back.                      *)
(*                                                                         *)
(* Two things the database decides are left open.  fk_enforced: whether    *)
(* the FOREIGN KEY constraints of the schema are enforced (they declare no *)
(* ON UPDATE CASCADE); SQLite does not enforce them unless told to.        *)
(* generated: the key the database gives a row inserted without one, any   *)
(* key that no row has.                                                    *)
(*                                                                         *)
(* A JSON payload is a function from its keys to their values.  The JSON   *)
(* value of `featured` is kept as its literal ("true", "false", "1") so    *)
(* that booleans and other truthy values stay apart.  The three DateTime   *)
(* columns carry no validation and take no part in the claims; they are    *)
(* left out.                                                               *)
(***************************************************************************)
EXTENDS Integers, Sequences, FiniteSets, TLC

VARIABLES products, products_categories, fk_enforced, generated, request, response

vars == <<products, products_categories, fk_enforced, generated, request, response>>

\* Product ids the model uses: 1..MaxId (path ids, payload ids, generated ids).
MaxId == 2
ProductIds == 1..MaxId

\* Upper bound of validate_name.
NameMax == 50

\* The seeded rows of `brands` and `categories`.
Brands ==
    { [id |-> 1, name |-> "acme", country_code |-> "us"],
      [id |-> 2, name |-> "bolt", country_code |-> "de"] }
Categories == { [id |-> 1, name |-> "c1"], [id |-> 2, name |-> "c2"] }
BrandIds == {b.id : b \in Brands}

\* Product.__table__.columns, without the DateTime columns.
Columns == {"id", "name", "rating", "featured", "items_in_stock", "brand_id"}
\* The columns of a stored row other than its primary key.
RowFields == {"name", "rating", "featured", "items_in_stock", "brand_id"}
\* nullable=False columns without a default.
Required == {"name", "rating", "items_in_stock", "brand_id"}

Has(d, k) == k \in DOMAIN d
Range(s) == {s[i] : i \in DOMAIN s}

---------------------------------------------------------------------------
(* Payloads *)

Name2 == "ab"
Name50 == "abcdefghijabcdefghijabcdefghijabcdefghijabcdefghij"
Name51 == "abcdefghijabcdefghijabcdefghijabcdefghijabcdefghijk"

\* A payload that creates a product.
BasePayload ==
    [name |-> Name2, rating |-> 0, items_in_stock |-> 0,
     brand |-> "acme", categories |-> <<"c1">>]

OneKeyPayloads ==
    {"id" :> i : i \in ProductIds}
    \cup {"name" :> Name51, "rating" :> -1, "items_in_stock" :> -1}
    \cup {"featured" :> f : f \in {"false", "1"}}
    \cup {"brand_id" :> b : b \in {1, 9}}
    \cup {"brand" :> "nope"}
    \cup {"categories" :> c : c \in {<<>>, <<"c2", "c1", "c2">>, <<"zz">>}}

\* An assignment that passes validation beside one that fails.
TwoKeyPayloads == {("name" :> Name50) @@ ("rating" :> -1)}

SparsePayloads == {<<>>} \cup OneKeyPayloads \cup TwoKeyPayloads

Without(p, k) == [x \in DOMAIN p \ {k} |-> p[x]]

CompletePayloads ==
    {o @@ BasePayload : o \in SparsePayloads}
    \cup {Without(BasePayload, k) : k \in DOMAIN BasePayload}
    \cup {("brand_id" :> b) @@ Without(BasePayload, "brand") : b \in {1, 9}}

Payloads == SparsePayloads \cup CompletePayloads

---------------------------------------------------------------------------
(* app/models/products.py *)

\* validate_*: TRUE when the validator returns the value, FALSE when it raises.
\* validate_name with the upper bound of the length left out.
validate_name_no_upper(name) == ~(Len(name) < 0)
validate_name(name) == ~(Len(name) < 0 \/ NameMax < Len(name))
validate_featured(featured) == featured \in {"true", "false"}
validate_rating(rating) == ~(rating < 0)
validate_items_in_stock(items_in_stock) == ~(items_in_stock < 0)

\* The @validates hook that runs when attribute k is assigned v.
Validates(k, v) ==
    CASE k = "name" -> validate_name(v)
      [] k = "featured" -> validate_featured(v)
      [] k = "rating" -> validate_rating(v)
      [] k = "items_in_stock" -> validate_items_in_stock(v)
      [] OTHER -> TRUE

\* query(Brand).filter_by(name=...).first() and its Category twin: the rows found.
BrandsNamed(name) == {b \in Brands : b.name = name}
CategoriesNamed(name) == {c \in Categories : c.name = name}

\* The keys of the dict comprehension over payload['categories'], in the order
\* of their first occurrence.
RECURSIVE DictKeys(_)
DictKeys(names) ==
    IF names = <<>> THEN <<>>
    ELSE LET front == DictKeys(SubSeq(names, 1, Len(names) - 1))
             last == names[Len(names)]
         IN IF last \in Range(front) THEN front ELSE Append(front, last)

\* Product.prepare_values: error is "" or the exception raised.
prepare_values(payload) ==
    LET values == [k \in DOMAIN payload \cap Columns |-> payload[k]]
        brand_name == IF Has(payload, "brand") THEN payload["brand"] ELSE ""
        names == DictKeys(IF Has(payload, "categories") THEN payload["categories"] ELSE <<>>)
        with_brand ==
            IF brand_name # "" /\ BrandsNamed(brand_name) # {}
            THEN ("brand_id" :> (CHOOSE b \in BrandsNamed(brand_name) : TRUE).id) @@ values
            ELSE values
        categories ==
            [i \in DOMAIN names |-> (CHOOSE c \in CategoriesNamed(names[i]) : TRUE).id]
    IN  IF brand_name # "" /\ BrandsNamed(brand_name) = {}
        THEN [error |-> "InvalidPayload", values |-> <<>>]
        ELSE IF \E i \in DOMAIN names : CategoriesNamed(names[i]) = {}
        THEN [error |-> "InvalidPayload", values |-> <<>>]
        ELSE IF names # <<>>
        THEN [error |-> "", values |-> ("categories" :> categories) @@ with_brand]
        ELSE [error |-> "", values |-> with_brand]

\* Every assignment of the values passes its validator (cls(**values), setattr).
AllValid(values) == \A k \in DOMAIN values : Validates(k, values[k])

\* The categories a product has: its rows of the join table.
CategoriesOf(pc, id) == {c \in {x.id : x \in Categories} : <<id, c>> \in pc}

\* What an operation of Product leaves: error is "" or the exception raised,
\* obj the id of the object it returns (0 for None).
Outcome(error, prods, pc, obj) ==
    [error |-> error, products |-> prods, products_categories |-> pc, obj |-> obj]
Raise(error) == Outcome(error, products, products_categories, 0)

\* Product.create.  new_id is the key the database generates when the values
\* carry none.
create(payload, new_id) ==
    LET pv == prepare_values(payload)
        values == pv.values
        id == IF Has(values, "id") THEN values["id"] ELSE new_id
        cats == IF Has(values, "categories") THEN Range(values["categories"]) ELSE {}
        row == [k \in RowFields |->
                  IF Has(values, k) THEN values[k] ELSE "false"]
    IN  IF pv.error # "" THEN Raise(pv.error)
        ELSE IF ~(Has(values, "brand_id") /\ values["brand_id"] # 0)
        THEN Raise("InvalidPayload")
        ELSE IF cats = {} THEN Raise("InvalidPayload")
        ELSE IF ~AllValid(values) THEN Raise("ValueError")
        \* db.session.commit(): the INSERTs
        ELSE IF ~(Required \subseteq DOMAIN values) THEN Raise("IntegrityError")
        ELSE IF id \in DOMAIN products THEN Raise("IntegrityError")
        ELSE IF fk_enforced /\ values["brand_id"] \notin BrandIds
        THEN Raise("IntegrityError")
        ELSE IF \E c \in cats : <<id, c>> \in products_categories
        THEN Raise("IntegrityError")
        ELSE Outcome("", (id :> row) @@ products,
                     products_categories \cup {<<id, c>> : c \in cats}, id)

\* db.session.commit() of Product.update: the UPDATE of the row of `products`,
\* then the DELETEs and INSERTs on the join table for the categories that left
\* and joined the collection.  The relationship is configured with the default
\* passive_updates, so a changed primary key is not carried to the join table.
commit_update(id, values) ==
    LET obj == products[id]
        new_id == IF Has(values, "id") THEN values["id"] ELSE id
        row == [k \in RowFields |-> IF Has(values, k) THEN values[k] ELSE obj[k]]
        old == CategoriesOf(products_categories, id)
        new == IF Has(values, "categories") THEN Range(values["categories"]) ELSE old
    IN  IF new_id # id /\ new_id \in DOMAIN products THEN Raise("IntegrityError")
        ELSE IF fk_enforced /\ row["brand_id"] \notin BrandIds
        THEN Raise("IntegrityError")
        ELSE IF fk_enforced /\ new_id # id /\ old # {} THEN Raise("IntegrityError")
        ELSE IF \E c \in new \ old : <<new_id, c>> \in products_categories
        THEN Raise("IntegrityError")
        ELSE IF \E c \in old \ new : <<new_id, c>> \notin products_categories
        THEN Raise("StaleDataError")
        ELSE Outcome("",
                     (new_id :> row) @@ [i \in DOMAIN products \ {id} |-> products[i]],
                     (products_categories \ {<<new_id, c>> : c \in old \ new})
                         \cup {<<new_id, c>> : c \in new \ old},
                     new_id)

\* update with the assignments that passed committed although a later one raised.
update_keeps_assigned(id, payload) ==
    LET pv == prepare_values(payload)
        values == pv.values
        passed == [k \in {x \in DOMAIN values : Validates(x, values[x])} |-> values[k]]
        kept == commit_update(id, passed)
    IN  IF pv.error # "" THEN Raise(pv.error)
        ELSE IF id \notin DOMAIN products
        THEN IF values = <<>> THEN Outcome("", products, products_categories, 0)
             ELSE Raise("AttributeError")
        ELSE IF ~AllValid(values)
        THEN Outcome("ValueError", kept.products, kept.products_categories, 0)
        ELSE commit_update(id, values)

\* Product.update.
update(id, payload) ==
    LET pv == prepare_values(payload)
        values == pv.values
    IN  IF pv.error # "" THEN Raise(pv.error)
        \* query.get(id) returned None: setattr raises; with no values the
        \* commit changes nothing and None is returned
        ELSE IF id \notin DOMAIN products
        THEN IF values = <<>> THEN Outcome("", products, products_categories, 0)
             ELSE Raise("AttributeError")
        \* the setattr loop: the first validator that raises ends it
        ELSE IF ~AllValid(values) THEN Raise("ValueError")
        ELSE commit_update(id, values)

\* delete raising, as retrieve does, when no row has the id.
delete_strict(id) ==
    IF id \in DOMAIN products
    THEN Outcome("", [i \in DOMAIN products \ {id} |-> products[i]],
                 {r \in products_categories : r[1] # id}, 0)
    ELSE Raise("NoResultFound")

\* Product.delete.
delete(id) ==
    IF id \in DOMAIN products
    THEN Outcome("", [i \in DOMAIN products \ {id} |-> products[i]],
                 {r \in products_categories : r[1] # id}, 0)
    ELSE Outcome("", products, products_categories, 0)

\* Product.retrieve: .one() raises NoResultFound when no row has the id.
retrieve(id) ==
    IF id \in DOMAIN products
    THEN Outcome("", products, products_categories, id)
    ELSE Raise("NoResultFound")

\* The categories of a product as the list the relationship loads, by id.
RECURSIVE SortedSeq(_)
SortedSeq(S) ==
    IF S = {} THEN <<>>
    ELSE LET m == CHOOSE x \in S : \A y \in S : x <= y
         IN <<m>> \o SortedSeq(S \ {m})

CategorySerialized(cid) == CHOOSE c \in Categories : c.id = cid

\* self.brand is None when no brand has the row's brand_id.
CanSerialize(prods, id) == id \in DOMAIN prods /\ prods[id]["brand_id"] \in BrandIds

\* Product.serialized, Brand.serialized, Category.serialized.
serialized(prods, pc, id) ==
    LET row == prods[id]
        cats == SortedSeq(CategoriesOf(pc, id))
    IN  [id |-> id,
         name |-> row["name"],
         rating |-> row["rating"],
         featured |-> row["featured"],
         items_in_stock |-> row["items_in_stock"],
         brand |-> CHOOSE b \in Brands : b.id = row["brand_id"],
         categories |-> [i \in DOMAIN cats |-> CategorySerialized(cats[i])]]

---------------------------------------------------------------------------
(* app/endpoints/products.py *)

\* raise InvalidUsage(message, status_code), answered by handle_invalid_usage.
InvalidUsage(message, status_code) ==
    [status |-> status_code,
     body |-> [message |-> message, status_code |-> status_code]]
NotFound(id) == InvalidUsage([text |-> "Product with id not found", id |-> id], 404)
Accrued(error) == InvalidUsage([text |-> "An error accrued", error |-> error], 410)

\* jsonify(product.serialized), status: AttributeError when product is None or
\* has no brand.
Jsonify(o, status) ==
    IF o.obj # 0 /\ CanSerialize(o.products, o.obj)
    THEN [status |-> status, body |-> serialized(o.products, o.products_categories, o.obj)]
    ELSE Accrued("AttributeError")

Answer(handler, id, payload, o, resp) ==
    /\ products' = o.products
    /\ products_categories' = o.products_categories
    /\ request' = [handler |-> handler, id |-> id, payload |-> payload]
    /\ response' = resp
    /\ UNCHANGED fk_enforced

get_products ==
    /\ generated' = 0
    /\ Answer("get_products", 0, <<>>, Raise(""),
           IF \A id \in DOMAIN products : CanSerialize(products, id)
           THEN [status |-> 200,
                 body |-> [results |->
                    [id \in DOMAIN products |->
                        serialized(products, products_categories, id)]]]
           ELSE [status |-> 500, body |-> <<>>])

\* The keys the database may generate: any key no row has (one past MaxId
\* when every id of the model is taken, which the guard below cuts off).
NewIds ==
    IF ProductIds \subseteq DOMAIN products THEN {MaxId + 1}
    ELSE ProductIds \ DOMAIN products

create_product ==
    \E payload \in Payloads, new_id \in NewIds :
        LET o == create(payload, new_id)
        IN  /\ DOMAIN o.products \subseteq ProductIds
            /\ Answer("create_product", 0, payload, o,
                      IF o.error # "" THEN Accrued(o.error) ELSE Jsonify(o, 201))
            /\ generated' = IF o.error = "" THEN new_id ELSE 0

update_product ==
    \E id \in ProductIds, payload \in Payloads :
        LET o == update(id, payload)
        IN  /\ Answer("update_product", id, payload, o,
                   IF o.error = "NoResultFound" THEN NotFound(id)
                   ELSE IF o.error # "" THEN Accrued(o.error)
                   ELSE Jsonify(o, 200))
            /\ generated' = 0

get_product ==
    \E id \in ProductIds :
        LET o == retrieve(id)
        IN  /\ Answer("get_product", id, <<>>, o,
                   IF o.error = "NoResultFound" THEN NotFound(id)
                   ELSE IF o.error # "" THEN Accrued(o.error)
                   ELSE Jsonify(o, 200))
            /\ generated' = 0

delete_product ==
    \E id \in ProductIds :
        LET o == delete(id)
        IN  /\ Answer("delete_product", id, <<>>, o,
                   IF o.error # "" THEN Accrued(o.error)
                   ELSE [status |-> 204, body |-> <<>>])
            /\ generated' = 0

---------------------------------------------------------------------------

Init ==
    /\ products = <<>>
    /\ products_categories = {}
    /\ fk_enforced \in BOOLEAN
    /\ generated = 0
    /\ request = [handler |-> "", id |-> 0, payload |-> <<>>]
    /\ response = [status |-> 0, body |-> <<>>]

Next ==
    \/ get_products
    \/ create_product
    \/ update_product
    \/ get_product
    \/ delete_product

Spec == Init /\ [][Next]_vars

---------------------------------------------------------------------------
(* The claims.  A step's request and response are those of the state it    *)
(* leads to; the tables before the step are the unprimed ones.             *)

BrandNames == {b.name : b \in Brands}
CategoryNames == {c.name : c \in Categories}

\* The payload assigns a value that section 4.3 of the spec rejects.
FailsValidation(p) ==
    \/ Has(p, "name") /\ Len(p["name"]) > 50
    \/ Has(p, "rating") /\ p["rating"] < 0
    \/ Has(p, "items_in_stock") /\ p["items_in_stock"] < 0
    \/ Has(p, "featured") /\ p["featured"] \notin {"true", "false"}

UnknownBrand(p) == Has(p, "brand") /\ p["brand"] \notin BrandNames
UnknownCategory(p) ==
    Has(p, "categories") /\ \E i \in DOMAIN p["categories"] : p["categories"][i] \notin CategoryNames
NoCategories(p) == ~Has(p, "categories") \/ p["categories"] = <<>>

StoreUnchanged == UNCHANGED <<products, products_categories>>

\* C1: a PUT on an id no product is stored under, with a payload that names
\* no unknown brand or category and assigns only valid values (the empty payload
\* included), answers 404 and leaves the store unchanged.
C1_PutMissingIs404 ==
    [][(/\ request'.handler = "update_product"
        /\ request'.id \notin DOMAIN products
        /\ ~FailsValidation(request'.payload)
        /\ ~UnknownBrand(request'.payload)
        /\ ~UnknownCategory(request'.payload))
       => (response'.status = 404 /\ StoreUnchanged)]_vars

C3_BrandAlwaysExists ==
    /\ \A id \in DOMAIN products : products[id]["brand_id"] \in BrandIds
    /\ (request.handler = "create_product" /\ response.status = 201)
        => (Has(request.payload, "brand") /\ request.payload["brand"] \in BrandNames)

\* C4: a POST whose payload has an unknown brand name, no brand, an unknown
\* category name, or an empty or missing category list answers 410 and leaves
\* the store unchanged.
C4_BadReferenceCreatesNothing ==
    [][(/\ request'.handler = "create_product"
        /\ \/ UnknownBrand(request'.payload)
           \/ ~Has(request'.payload, "brand")
           \/ UnknownCategory(request'.payload)
           \/ NoCategories(request'.payload))
       => (response'.status = 410 /\ StoreUnchanged)]_vars

\* C5: after a successful PUT whose payload has a `categories` key with names
\* that all resolve, the product's categories are exactly the named ones, for
\* every such list, the empty one included.
C5_CategoriesReplaced ==
    (/\ request.handler = "update_product"
     /\ response.status = 200
     /\ Has(request.payload, "categories")
     /\ ~UnknownCategory(request.payload))
    => (/\ {response.body.categories[i].name : i \in DOMAIN response.body.categories}
            = Range(request.payload["categories"])
        /\ {(CHOOSE c \in Categories : c.id = cid).name :
                cid \in CategoriesOf(products_categories, response.body.id)}
            = Range(request.payload["categories"]))

\* C6: DELETE answers 204 with an empty body whether or not the id is stored;
\* it removes that product, leaves every other product and its categories as
\* they were (and the whole store when the id is not stored); and a GET of an id that is not
\* stored answers 404.
C6_DeleteRemovesExactlyThat ==
    [][/\ request'.handler = "delete_product"
            => /\ response' = [status |-> 204, body |-> <<>>]
               /\ DOMAIN products' = DOMAIN products \ {request'.id}
               /\ \A i \in DOMAIN products' : products'[i] = products[i]
               /\ \A r \in products_categories \cup products_categories' :
                    r[1] # request'.id
                        => (r \in products_categories <=> r \in products_categories')
               /\ request'.id \notin DOMAIN products => StoreUnchanged
       /\ (request'.handler = "get_product" /\ request'.id \notin DOMAIN products)
            => response'.status = 404]_vars

\* C6's case: a DELETE was answered 204, its id is not stored, and another
\* product is.
C6_Witness ==
    /\ request.handler = "delete_product"
    /\ response.status = 204
    /\ request.id \notin DOMAIN products
    /\ DOMAIN products # {}

\* The payload names a known brand, at least one category, all known, and gives
\* name, rating and items_in_stock (and featured, if any) valid values.
ValidCreate(p) ==
    /\ Has(p, "brand") /\ p["brand"] \in BrandNames
    /\ ~NoCategories(p) /\ ~UnknownCategory(p)
    /\ {"name", "rating", "items_in_stock"} \subseteq DOMAIN p
    /\ ~FailsValidation(p)

\* C7: a POST with a known brand name, at least one category name, all of them
\* known, and valid values for name, rating, items_in_stock and featured answers
\* 201; the body's brand is the Brand of that name, its categories are the
\* named Categories, each once, and the body is what GET of its id returns.
C7_CreateRoundTrip ==
    (request.handler = "create_product" /\ ValidCreate(request.payload))
    => (/\ response.status = 201
        /\ response.body.brand.name = request.payload["brand"]
        /\ {response.body.categories[i].name : i \in DOMAIN response.body.categories}
            = Range(request.payload["categories"])
        /\ Len(response.body.categories) = Cardinality(Range(request.payload["categories"]))
        /\ response.body.id \in DOMAIN products
        /\ response.body = serialized(products, products_categories, response.body.id))

\* C8: every stored product has rating >= 0, items_in_stock >= 0, a boolean
\* featured and a name of at most 50 characters, and no POST or PUT whose
\* payload assigns a value outside these succeeds.
C8_StoredFieldsValid ==
    /\ \A id \in DOMAIN products :
        /\ products[id]["rating"] >= 0
        /\ products[id]["items_in_stock"] >= 0
        /\ products[id]["featured"] \in {"true", "false"}
        /\ Len(products[id]["name"]) <= 50
    /\ (request.handler \in {"create_product", "update_product"}
            /\ FailsValidation(request.payload))
        => response.status \notin {200, 201}

\* C8's case: a product is stored and a PUT that assigns it a name of 51
\* characters was refused.
C8_Witness ==
    /\ request.handler = "update_product"
    /\ request.id \in DOMAIN products
    /\ request.payload = ("name" :> Name51)
    /\ response.status = 410

\* C9: GET of an id answers 404, with the id in the message, exactly when no
\* product is stored under it, and 200 with the serialized product otherwise;
\* only a missing record answers 404 and every other failure answers 410.
C9_GetStatus ==
    /\ request.handler = "get_product"
        => IF request.id \in DOMAIN products
           THEN /\ response.status = 200
                /\ response.body.id = request.id
           ELSE /\ response.status = 404
                /\ response.body.message.id = request.id
    /\ response.status \in {0, 200, 201, 204, 404, 410}
    /\ response.status = 404 => request.id \notin DOMAIN products

\* C10: after a successful PUT of an id the product is still stored under that
\* id and the body carries it, whatever the payload; and a successful POST
\* stores the product under the key the database generated, whatever id its
\* payload carries.
C10_IdFixed ==
    /\ (request.handler = "update_product" /\ response.status = 200)
        => (request.id \in DOMAIN products /\ response.body.id = request.id)
    /\ (request.handler = "create_product" /\ response.status = 201)
        => response.body.id = generated

====
